---- MODULE Spec2Model ----
(***************************************************************************)
(* Model of scripts/geojson-diff.py: DatasetInMemory.add_item,             *)
(* GeojsonCompare._load_geojson, GeojsonCompare.compute and the two        *)
(* renderers diff_geojson_full and summary_tabular; and of the row filter  *)
(* of scripts/csv2geojson.py (geojson_item, geojson_item_contain).         *)
(*                                                                         *)
(* Encoding of Python values.                                              *)
(*  - A dict of attributes is a set of <<key, value>> pairs.               *)
(*  - An element of DatasetInMemory.items is a record with a field `tag`:  *)
(*    "False" (the value False), "None" (the value None) or "tuple" (the   *)
(*    3-tuple (coords, props, geometry_original)).  The other fields of a  *)
(*    "False"/"None" record are fillers: Python raises TypeError when it   *)
(*    subscripts such a value, and the model does the same (see the        *)
(*    renderers).                                                          *)
(*  - Coordinates are integers in grid steps; one grid step is 50 m on the *)
(*    ground.  Distances are integers in millimetres.                      *)
(*  - Indices of the source are 0-based; sequences here are 1-based, so    *)
(*    the source's items[k] is items[k + 1] here.  Indices stored in a     *)
(*    match entry or printed in a label keep the source's 0-based value.   *)
(***************************************************************************)
EXTENDS Integers, Sequences, FiniteSets, TLC

\* ------------------------------------------------------------------ bounds
\* Longest feature array of document A and of document B.
MaxA == 2
MaxB == 2

\* ---------------------------------------------------------- program constants
MATCH_EXACT == 1
MATCH_NEAR == 3

\* ------------------------------------------------------------ Python values
\* props = None
NoneProps == [isNone |-> TRUE, d |-> {}]
\* props = a dict
DictProps(d) == [isNone |-> FALSE, d |-> d]
\* geometry_original = None
NoneGeom == [isNone |-> TRUE, type |-> "", coordinates |-> <<>>]

\* self.items.append(False)
PyFalse == [tag |-> "False", coords |-> <<0, 0>>, props |-> NoneProps, geom |-> NoneGeom]
\* self.items.append(None)
PyNone == [tag |-> "None", coords |-> <<0, 0>>, props |-> NoneProps, geom |-> NoneGeom]
\* self.items.append((coords, props, geometry))
PyTuple(coords, props, geom) == [tag |-> "tuple", coords |-> coords, props |-> props, geom |-> geom]

\* Truth value of an element of items: False and None are falsy, a 3-tuple is
\* truthy (`if self.a.items[index_a]:`, `self.b.items[index_b] and ...`).
Truthy_always(item) == TRUE
Truthy(item) == item.tag = "tuple"

\* ------------------------------------------------------------ input features
\* A raw feature (one element of the document's feature array).
\*   isEmpty         the feature is {} (or otherwise falsy)
\*   hasGeometry     "geometry" in item
\*   hasCoordinates  "coordinates" in item["geometry"]
\*   hasType         "type" in item
\*   hasGeomType     "type" in item["geometry"]
\*   geomType        item["geometry"]["type"]
\*   coordinates     item["geometry"]["coordinates"]: <<lon, lat>> for a Point,
\*                   << ring >> with ring a sequence of <<lon, lat>> for a Polygon
\*   hasTags/tags, hasProperties/properties   the two attribute containers
Feature(gt, c, hasTags, tags, hasProps, props) ==
    [isEmpty |-> FALSE, hasGeometry |-> TRUE, hasCoordinates |-> TRUE,
     hasType |-> TRUE, hasGeomType |-> TRUE, geomType |-> gt, coordinates |-> c,
     hasTags |-> hasTags, tags |-> tags,
     hasProperties |-> hasProps, properties |-> props]

EmptyFeature ==
    [isEmpty |-> TRUE, hasGeometry |-> FALSE, hasCoordinates |-> FALSE,
     hasType |-> FALSE, hasGeomType |-> FALSE, geomType |-> "", coordinates |-> <<>>,
     hasTags |-> FALSE, tags |-> {}, hasProperties |-> FALSE, properties |-> {}]

PointFeature(lon, lat, props) == Feature("Point", <<lon, lat>>, FALSE, {}, TRUE, props)

\* The features the inputs are drawn from: three Points on the corners of a
\* grid cell (50 m, 50 m and 70.71 m apart), a feature without geometry, a
\* LineString, and a square Polygon whose centroid is the position of the
\* first Point.
\* The pool is written as a sequence so that no two features are ever
\* compared with each other.
FeaturePool ==
    << PointFeature(1, 0, {<<"id", "x1">>, <<"name", "n1">>}),
       PointFeature(0, 0, {}),
       PointFeature(1, 1, {<<"id", "x3">>, <<"ref", "r3">>}),
       EmptyFeature,
       Feature("LineString", <<<<0, 0>>, <<1, 0>>>>, FALSE, {}, TRUE, {<<"id", "x5">>}),
       Feature("Polygon", << <<<<0, -1>>, <<2, -1>>, <<2, 1>>, <<0, 1>>, <<0, -1>>>> >>,
               FALSE, {}, TRUE, {<<"id", "x6">>}) >>

\* --tolerate-distance, in metres, as the inputs draw it.
Tolerances == {50, 100}

\* All sequences over S of length at most n.
SeqsUpTo(S, n) == UNION {[1..k -> S] : k \in 0..n}

\* A document: the parsed JSON object with its two possible containers.
Doc(hasElements, elements, hasFeatures, features) ==
    [hasElements |-> hasElements, elements |-> elements,
     hasFeatures |-> hasFeatures, features |-> features]

\* The feature array picked by index from the pool.
FeaturesAt(ixs) == [k \in 1..Len(ixs) |-> FeaturePool[ixs[k]]]

\* ------------------------------------------------------------------ geometry
\* shapely: Polygon(ring).centroid, the area-weighted centroid of the ring
\* (shoelace formula).  Returns <<x, y>>.
Cross(p, q) == p[1] * q[2] - q[1] * p[2]

RECURSIVE SumCross(_, _)
SumCross(ring, k) ==
    IF k >= Len(ring) THEN 0
    ELSE Cross(ring[k], ring[k + 1]) + SumCross(ring, k + 1)

RECURSIVE SumCentroid(_, _, _)
SumCentroid(ring, k, c) ==
    IF k >= Len(ring) THEN 0
    ELSE (ring[k][c] + ring[k + 1][c]) * Cross(ring[k], ring[k + 1])
         + SumCentroid(ring, k + 1, c)

Centroid(ring) ==
    << SumCentroid(ring, 1, 1) \div (3 * SumCross(ring, 1)),
       SumCentroid(ring, 1, 2) \div (3 * SumCross(ring, 1)) >>

\* Integer square root.
RECURSIVE ISqrtBetween(_, _, _)
ISqrtBetween(x, lo, hi) ==
    IF lo >= hi THEN lo
    ELSE LET mid == (lo + hi + 1) \div 2
         IN IF mid * mid <= x THEN ISqrtBetween(x, mid, hi)
            ELSE ISqrtBetween(x, lo, mid - 1)

ISqrt(x) == ISqrtBetween(x, 0, IF x < 46340 THEN x ELSE 46340)

\* haversine(p, q, unit=Unit.METERS) for two (lat, lon) pairs a few grid steps
\* apart: the great-circle distance, here in millimetres (one grid step is
\* 50 000 mm; over such distances the sphere is flat to well below 1 mm).
haversine(p, q) ==
    LET dlat == p[1] - q[1]
        dlon == p[2] - q[2]
    IN 50 * ISqrt((dlat * dlat + dlon * dlon) * 1000000)

\* A tolerance in metres, in the unit of haversine.
Metres(m) == m * 1000

\* ------------------------------------------------------------------ add_item
\* `item[key]` is truthy and has keys: a non-empty dict.
NonEmptyDict(has, d) == has /\ d # {}

\* DatasetInMemory.add_item: the element appended for one feature, or the
\* exception the feature raises.
add_item(item) ==
    IF item.isEmpty \/ ~item.hasGeometry \/ ~item.hasCoordinates \/ ~item.hasType
    THEN [raised |-> FALSE, rec |-> PyFalse]
    ELSE IF ~item.hasGeomType
    THEN [raised |-> TRUE, rec |-> PyFalse]
    ELSE IF item.geomType # "Point"
    THEN IF item.geomType = "Polygon"
         THEN LET c == Centroid(item.coordinates[1])
                  props == IF NonEmptyDict(item.hasProperties, item.properties)
                           THEN DictProps(item.properties) ELSE NoneProps
                  geometry_original == [isNone |-> FALSE, type |-> item.geomType,
                                        coordinates |-> item.coordinates]
              IN [raised |-> FALSE,
                  rec |-> PyTuple(<<c[2], c[1]>>, props, geometry_original)]
         ELSE [raised |-> FALSE, rec |-> PyNone]
    ELSE LET coords == <<item.coordinates[2], item.coordinates[1]>>
             useTags == item.hasTags
             has == IF useTags THEN item.hasTags ELSE item.hasProperties
             d == IF useTags THEN item.tags ELSE item.properties
             props == IF NonEmptyDict(has, d) THEN DictProps(d) ELSE NoneProps
         IN [raised |-> FALSE, rec |-> PyTuple(coords, props, NoneGeom)]

\* ------------------------------------------------------------- _load_geojson
\* The loop `for feat in jdict[container]: data.add_item(feat)`.
RECURSIVE LoadFeatures(_, _, _)
LoadFeatures(feats, k, items) ==
    IF k > Len(feats) THEN [raised |-> FALSE, items |-> items]
    ELSE LET r == add_item(feats[k])
         IN IF r.raised THEN [raised |-> TRUE, items |-> items]
            ELSE LoadFeatures(feats, k + 1, Append(items, r.rec))

\* GeojsonCompare._load_geojson on a parsed document.
_load_geojson(jdict) ==
    LET container == IF jdict.hasElements THEN "elements" ELSE "features"
    IN IF container = "elements"
       THEN LoadFeatures(jdict.elements, 1, <<>>)
       ELSE IF ~jdict.hasFeatures THEN [raised |-> TRUE, items |-> <<>>]
       ELSE LoadFeatures(jdict.features, 1, <<>>)

\* ------------------------------------------------------------- match entries
\* `skiped`: None, or the list of labels f"B{index_b}" (a label is <<"B", index_b>>).
NoneList == [isNone |-> TRUE, list |-> <<>>]
SomeList(l) == [isNone |-> FALSE, list |-> l]

\* self.matrix.append(None)
NoneEntry == [isNone |-> TRUE, index_b |-> 0, kind |-> 0, dist |-> 0, skiped |-> NoneList]
\* self.matrix.append((index_b, kind, dist, skiped))
Entry(index_b, kind, dist, skiped) ==
    [isNone |-> FALSE, index_b |-> index_b, kind |-> kind, dist |-> dist, skiped |-> skiped]

\* --------------------------------------------------------------------- state
VARIABLES
    docA, docB,      \* the two parsed input documents
    distance_okay,   \* self.distance_okay, metres
    a, b,            \* self.a.items, self.b.items
    matrix,          \* self.matrix
    index_a,         \* number of A indices compute() has gone through
    found,           \* compute(): `found` of the last iteration
    candidates,      \* compute(): `candidates` (kept from one iteration to the next)
    pc,              \* "load_a", "load_b", "compute", "render", "aborted"
    diff,            \* what diff_geojson_full() returned
    tabular,         \* what summary_tabular() returned
    docA2, a2, matrix2, index_a2, found2, candidates2, pc2,
                     \* a second GeojsonCompare over (docA2, docB, distance_okay)
    csv_rows,        \* csv2geojson: the rows csv.DictReader yields
    csv_args,        \* csv2geojson: pyargs.contain_or, the --contain-or values
    contain_or,      \* csv2geojson: execute_cli's _contain_or
    csv_returns,     \* csv2geojson: what geojson_item returned, row by row
    csv_pc           \* csv2geojson: "idle", "args", "rows", "done", "raised"

vars == <<docA, docB, distance_okay, a, b, matrix, index_a, found, candidates,
          pc, diff, tabular, docA2, a2, matrix2, index_a2, found2, candidates2, pc2,
          csv_rows, csv_args, contain_or, csv_returns, csv_pc>>

run1 == <<docA, a, matrix, index_a, found, candidates, pc, diff, tabular>>
run2 == <<docA2, a2, matrix2, index_a2, found2, candidates2, pc2>>
csvrun == <<csv_rows, csv_args, contain_or, csv_returns, csv_pc>>

\* ------------------------------------------------------------------- compute
\* `self.a.items[index_a] == self.b.items[index_b]` on two 3-tuples.
TupleEq(x, y) == x.coords = y.coords /\ x.props = y.props /\ x.geom = y.geom

\* `dist <= self.distance_okay`
WithinTolerance_strict(dist, tol) == dist < Metres(tol)
WithinTolerance(dist, tol) == dist <= Metres(tol)

\* `found = False` at the top of each iteration of the loop over A.
FoundAtTop_stale(previous) == previous
FoundAtTop(previous) == FALSE

\* One pass of `for index_b in range(0, len(self.b.items))` from position k on.
\* st = [matrix, found, candidates]; k is 1-based, the entry stores k - 1.
RECURSIVE ScanB(_, _, _, _, _)
ScanB(item_a, items_b, tol, k, st) ==
    IF k > Len(items_b) THEN st
    ELSE LET item_b == items_b[k]
             exact == [st EXCEPT !.matrix = Append(@, Entry(k - 1, MATCH_EXACT, 0, NoneList)),
                                 !.found = TRUE]
             dist == haversine(item_a.coords, item_b.coords)
             st2 == IF Truthy(item_b) /\ TupleEq(item_a, item_b) THEN exact
                    ELSE IF Truthy(item_b) /\ item_a.coords = item_b.coords THEN exact
                    ELSE IF Truthy(item_b)
                    THEN IF WithinTolerance(dist, tol)
                         THEN [st EXCEPT !.candidates = Append(@, <<dist, k - 1>>),
                                         !.found = TRUE]
                         ELSE st
                    ELSE st
         IN ScanB(item_a, items_b, tol, k + 1, st2)

\* sorted(candidates, key=lambda tup: tup[0]): a stable sort by distance.
RECURSIVE InsertSorted(_, _)
InsertSorted(sorted, c) ==
    IF sorted = <<>> THEN <<c>>
    ELSE IF c[1] < sorted[1][1] THEN <<c>> \o sorted
    ELSE <<sorted[1]>> \o InsertSorted(Tail(sorted), c)

RECURSIVE SortedFrom(_, _, _)
SortedFrom(cs, k, acc) ==
    IF k > Len(cs) THEN acc ELSE SortedFrom(cs, k + 1, InsertSorted(acc, cs[k]))

candidates_sorted_unsorted(cs) == cs
candidates_sorted(cs) == SortedFrom(cs, 1, <<>>)

\* The NEAR entry built from a non-empty candidate list.
NearEntry_skipfirst(cs) ==
    LET best == candidates_sorted(cs)[1]
        skiped == IF Len(cs) > 1
                  THEN SomeList([i \in 1..(Len(cs) - 1) |-> <<"B", cs[i + 1][2]>>])
                  ELSE NoneList
    IN Entry(best[2], MATCH_NEAR, best[1], skiped)

NearEntry(cs) ==
    LET best == candidates_sorted(cs)[1]
        skiped == IF Len(cs) > 1
                  THEN SomeList([i \in 1..Len(cs) |-> <<"B", cs[i][2]>>])
                  ELSE NoneList
    IN Entry(best[2], MATCH_NEAR, best[1], skiped)

\* One iteration of `for index_a in range(0, len(self.a.items))`: the scan of
\* B for items_a[k] and the two `if`s after it.
ComputeIteration(items_a, items_b, tol, k, st) ==
    LET top == [st EXCEPT !.found = FoundAtTop(st.found)]
        scanned == IF Truthy(items_a[k])
                   THEN ScanB(items_a[k], items_b, tol, 1, [top EXCEPT !.candidates = <<>>])
                   ELSE top
        near == IF scanned.found /\ Len(scanned.candidates) > 0
                THEN [scanned EXCEPT !.matrix = Append(@, NearEntry(scanned.candidates))]
                ELSE scanned
    IN IF ~near.found THEN [near EXCEPT !.matrix = Append(@, NoneEntry)] ELSE near

\* ----------------------------------------------------------------- renderers
\* A cell of the table: <<>> is the empty string, <<v>> the value v.
EmptyCell == <<>>
Cell(v) == <<v>>

\* properties[key] for a key the dict has.
Lookup(d, key) == (CHOOSE kv \in d : kv[1] = key)[2]
HasKey(d, key) == \E kv \in d : kv[1] = key

\* `_item_a[1]` / `self.b.items[...][1]` is truthy: a dict, and not empty.
TruthyProps(props) == ~props.isNone /\ props.d # {}

\* round(x, 2) of a distance: the nearest centimetre, still in millimetres.
Round2(mm) == ((mm + 5) \div 10) * 10

\* GeojsonCompare._short_title: the name (`name` over `nome`) and the `ref`.
_short_title(props) ==
    IF ~TruthyProps(props) THEN [name |-> EmptyCell, ref |-> EmptyCell]
    ELSE [name |-> IF HasKey(props.d, "name") THEN Cell(Lookup(props.d, "name"))
                   ELSE IF HasKey(props.d, "nome") THEN Cell(Lookup(props.d, "nome"))
                   ELSE EmptyCell,
          ref |-> IF HasKey(props.d, "ref") THEN Cell(Lookup(props.d, "ref"))
                  ELSE EmptyCell]

\* diff_geojson_full: final_geometry, the original geometry if the element
\* keeps one, else a Point at the element's coordinate pair.
final_geometry_point(_item_a) == [type |-> "Point", coordinates |-> _item_a.coords]
final_geometry(_item_a) ==
    IF ~_item_a.geom.isNone
    THEN [type |-> _item_a.geom.type, coordinates |-> _item_a.geom.coordinates]
    ELSE [type |-> "Point", coordinates |-> _item_a.coords]

\* The output feature of diff_geojson_full for a truthy _item_a and its _matrix.
\* The keys "a.<k>", "b.<k>" are the pairs of the fields a and b.
DiffFeature(_item_a, _matrix, items_b) ==
    LET item_b == items_b[_matrix.index_b + 1]
    IN [geometry |-> final_geometry(_item_a),
        properties |->
          [a |-> IF ~_item_a.props.isNone THEN _item_a.props.d ELSE {},
           b |-> IF ~_matrix.isNone /\ TruthyProps(item_b.props) THEN item_b.props.d ELSE {},
           distance |-> IF ~_matrix.isNone THEN Round2(_matrix.dist) ELSE -1,
           near |-> IF ~_matrix.isNone /\ ~_matrix.skiped.isNone /\ _matrix.skiped.list # <<>>
                    THEN Cell(_matrix.skiped.list) ELSE EmptyCell],
        type |-> "Feature"]

\* Subscripting the element raises TypeError: it is False or None.
Unsubscriptable(item) == ~Truthy(item)

\* The loop of diff_geojson_full from A index k on.
RECURSIVE DiffFrom(_, _, _, _, _)
DiffFrom(items_a, items_b, mtx, k, features) ==
    IF k > Len(items_a) THEN [state |-> "returned", features |-> features]
    ELSE IF Unsubscriptable(items_a[k])
              \/ (~mtx[k].isNone /\ Unsubscriptable(items_b[mtx[k].index_b + 1]))
    THEN [state |-> "raised", features |-> features]
    ELSE DiffFrom(items_a, items_b, mtx, k + 1,
                  Append(features, DiffFeature(items_a[k], mtx[k], items_b)))

diff_geojson_full(items_a, items_b, mtx) == DiffFrom(items_a, items_b, mtx, 1, <<>>)

header ==
    <<"uid_a", "uid_b", "id_a", "id_b", "distance_ab", "latitude_a", "longitude_a",
      "latitude_b", "longitude_b", "desc_a", "desc_b", "near_a">>

\* The data row of summary_tabular for a truthy _item_a at 0-based index i.
TabularRow(i, _item_a, _matrix, items_b) ==
    LET item_b == items_b[_matrix.index_b + 1]
        uid_a == Cell(<<"A", i>>)
        uid_b == IF _matrix.isNone THEN EmptyCell ELSE Cell(<<"B", _matrix.index_b>>)
        id_a == IF ~TruthyProps(_item_a.props) \/ ~HasKey(_item_a.props.d, "id")
                THEN EmptyCell ELSE Cell(Lookup(_item_a.props.d, "id"))
        id_b == IF ~_matrix.isNone /\ TruthyProps(item_b.props) /\ HasKey(item_b.props.d, "id")
                THEN Cell(Lookup(item_b.props.d, "id")) ELSE EmptyCell
        distance_ab == IF _matrix.isNone THEN Cell(-1) ELSE Cell(_matrix.dist)
        latitude_a == Cell(_item_a.coords[2])
        longitude_a == Cell(_item_a.coords[1])
        latitude_b == IF _matrix.isNone THEN EmptyCell ELSE Cell(item_b.coords[2])
        longitude_b == IF _matrix.isNone THEN EmptyCell ELSE Cell(item_b.coords[1])
        desc_a == Cell(_short_title(_item_a.props))
        desc_b == IF _matrix.isNone THEN EmptyCell ELSE Cell(_short_title(item_b.props))
        near_a == IF _matrix.isNone \/ _matrix.skiped.isNone \/ _matrix.skiped.list = <<>>
                  THEN EmptyCell ELSE Cell(_matrix.skiped.list)
    IN <<uid_a, uid_b, id_a, id_b, distance_ab, latitude_a, longitude_a,
         latitude_b, longitude_b, desc_a, desc_b, near_a>>

\* The loop of summary_tabular from A index k on; `data.insert(0, header)` last.
RECURSIVE TabularFrom(_, _, _, _, _)
TabularFrom(items_a, items_b, mtx, k, data) ==
    IF k > Len(items_a) THEN [state |-> "returned", data |-> <<header>> \o data]
    ELSE IF Unsubscriptable(items_a[k])
              \/ (~mtx[k].isNone /\ Unsubscriptable(items_b[mtx[k].index_b + 1]))
    THEN [state |-> "raised", data |-> data]
    ELSE TabularFrom(items_a, items_b, mtx, k + 1,
                     Append(data, TabularRow(k - 1, items_a[k], mtx[k], items_b)))

summary_tabular(items_a, items_b, mtx) == TabularFrom(items_a, items_b, mtx, 1, <<>>)

\* ---------------------------------------------------------------- the inputs
NotCalled == [state |-> "none"]

\* A document {"features": [...]} over the pool.
FeaturesDoc(ixs) == Doc(FALSE, <<>>, TRUE, FeaturesAt(ixs))

Init ==
    /\ \E ixs \in SeqsUpTo(DOMAIN FeaturePool, MaxA) : docA = FeaturesDoc(ixs)
    /\ \E ixs \in SeqsUpTo(DOMAIN FeaturePool, MaxB) : docB = FeaturesDoc(ixs)
    /\ distance_okay \in Tolerances
    /\ a = <<>> /\ b = <<>> /\ matrix = <<>>
    /\ index_a = 0 /\ found = FALSE /\ candidates = <<>>
    /\ pc = "load_a"
    /\ diff = NotCalled /\ tabular = NotCalled
    /\ docA2 = FeaturesDoc(<<>>) /\ a2 = <<>> /\ matrix2 = <<>>
    /\ index_a2 = 0 /\ found2 = FALSE /\ candidates2 = <<>>
    /\ pc2 = "idle"
    /\ csv_rows = <<>> /\ csv_args = <<>> /\ contain_or = {} /\ csv_returns = <<>>
    /\ csv_pc = "idle"

\* ------------------------------------------------------------------- actions
\* __init__: self.a = self._load_geojson(geodataset_a, "A")
LoadA ==
    /\ pc = "load_a"
    /\ LET r == _load_geojson(docA)
       IN /\ a' = IF r.raised THEN a ELSE r.items
          /\ pc' = IF r.raised THEN "aborted" ELSE "load_b"
    /\ UNCHANGED <<docA, docB, distance_okay, b, matrix, index_a, found, candidates,
                   diff, tabular>>
    /\ UNCHANGED run2
    /\ UNCHANGED csvrun

\* __init__: self.b = self._load_geojson(geodataset_b, "B"); self.matrix = []
LoadB ==
    /\ pc = "load_b"
    /\ LET r == _load_geojson(docB)
       IN /\ b' = IF r.raised THEN b ELSE r.items
          /\ pc' = IF r.raised THEN "aborted" ELSE "compute"
    /\ matrix' = <<>>
    /\ UNCHANGED <<docA, docB, distance_okay, a, index_a, found, candidates, diff, tabular>>
    /\ UNCHANGED run2
    /\ UNCHANGED csvrun

\* compute(): one iteration of the loop over A.
ComputeStep ==
    /\ pc = "compute"
    /\ index_a < Len(a)
    /\ LET st == ComputeIteration(a, b, distance_okay, index_a + 1,
                     [matrix |-> matrix, found |-> found, candidates |-> candidates])
       IN /\ matrix' = st.matrix
          /\ found' = st.found
          /\ candidates' = st.candidates
    /\ index_a' = index_a + 1
    /\ UNCHANGED <<docA, docB, distance_okay, a, b, pc, diff, tabular>>
    /\ UNCHANGED run2
    /\ UNCHANGED csvrun

\* compute() returns: the loop over A is exhausted and __init__ is done.
ComputeReturn ==
    /\ pc = "compute"
    /\ index_a = Len(a)
    /\ pc' = "render"
    /\ UNCHANGED <<docA, docB, distance_okay, a, b, matrix, index_a, found, candidates,
                   diff, tabular>>
    /\ UNCHANGED run2
    /\ UNCHANGED csvrun

\* execute_cli: geodiff.diff_geojson_full()
DiffGeojsonFull ==
    /\ pc = "render"
    /\ diff = NotCalled
    /\ diff' = diff_geojson_full(a, b, matrix)
    /\ UNCHANGED <<docA, docB, distance_okay, a, b, matrix, index_a, found, candidates,
                   pc, tabular>>
    /\ UNCHANGED run2
    /\ UNCHANGED csvrun

\* execute_cli: geodiff.summary_tabular()
SummaryTabular ==
    /\ pc = "render"
    /\ tabular = NotCalled
    /\ tabular' = summary_tabular(a, b, matrix)
    /\ UNCHANGED <<docA, docB, distance_okay, a, b, matrix, index_a, found, candidates,
                   pc, diff>>
    /\ UNCHANGED run2
    /\ UNCHANGED csvrun

Next == LoadA \/ LoadB \/ ComputeStep \/ ComputeReturn \/ DiffGeojsonFull \/ SummaryTabular

Spec == Init /\ [][Next]_vars

\* ------------------------------------------- two comparisons over the same B
\* The features the two A documents and the B document of SpecPair draw from:
\* the three Points and the feature without geometry.
PairPool == {1, 2, 3, 4}

InitPair ==
    /\ \E ixs \in SeqsUpTo(PairPool, MaxA) :
         \E ixs2 \in [DOMAIN ixs -> PairPool] :
            docA = FeaturesDoc(ixs) /\ docA2 = FeaturesDoc(ixs2)
    /\ \E ixs \in SeqsUpTo(PairPool, MaxB) : docB = FeaturesDoc(ixs)
    /\ distance_okay \in Tolerances
    /\ a = <<>> /\ b = <<>> /\ matrix = <<>>
    /\ index_a = 0 /\ found = FALSE /\ candidates = <<>>
    /\ pc = "load_a"
    /\ diff = NotCalled /\ tabular = NotCalled
    /\ a2 = <<>> /\ matrix2 = <<>>
    /\ index_a2 = 0 /\ found2 = FALSE /\ candidates2 = <<>>
    /\ pc2 = "load_a"
    /\ csv_rows = <<>> /\ csv_args = <<>> /\ contain_or = {} /\ csv_returns = <<>>
    /\ csv_pc = "idle"

\* The second GeojsonCompare.__init__, run once the first is constructed:
\* self.a = self._load_geojson(geodataset_a, "A"); document B is the same
\* document, so self.b is the same list of elements; self.matrix = [].
LoadA2 ==
    /\ pc = "render"
    /\ pc2 = "load_a"
    /\ LET r == _load_geojson(docA2)
       IN /\ a2' = IF r.raised THEN a2 ELSE r.items
          /\ pc2' = IF r.raised THEN "aborted" ELSE "compute"
    /\ matrix2' = <<>>
    /\ UNCHANGED <<docA2, index_a2, found2, candidates2>>
    /\ UNCHANGED <<docB, distance_okay, b>>
    /\ UNCHANGED run1
    /\ UNCHANGED csvrun

\* compute() of the second comparison: one iteration of the loop over A.
ComputeStep2 ==
    /\ pc2 = "compute"
    /\ index_a2 < Len(a2)
    /\ LET st == ComputeIteration(a2, b, distance_okay, index_a2 + 1,
                     [matrix |-> matrix2, found |-> found2, candidates |-> candidates2])
       IN /\ matrix2' = st.matrix
          /\ found2' = st.found
          /\ candidates2' = st.candidates
    /\ index_a2' = index_a2 + 1
    /\ UNCHANGED <<docA2, a2, pc2>>
    /\ UNCHANGED <<docB, distance_okay, b>>
    /\ UNCHANGED run1
    /\ UNCHANGED csvrun

\* compute() of the second comparison returns.
ComputeReturn2 ==
    /\ pc2 = "compute"
    /\ index_a2 = Len(a2)
    /\ pc2' = "render"
    /\ UNCHANGED <<docA2, a2, matrix2, index_a2, found2, candidates2>>
    /\ UNCHANGED <<docB, distance_okay, b>>
    /\ UNCHANGED run1
    /\ UNCHANGED csvrun

NextPair == LoadA \/ LoadB \/ ComputeStep \/ ComputeReturn
            \/ LoadA2 \/ ComputeStep2 \/ ComputeReturn2

SpecPair == InitPair /\ [][NextPair]_vars

\* ------------------------------------------------- documents for the loader
\* The features the documents of SpecLoad draw from: Points with the two
\* attribute containers present, empty or absent, and the malformed features.
LoadPool ==
    << Feature("Point", <<1, 0>>, TRUE, {<<"k", "t">>}, TRUE, {<<"k", "p">>}),
       Feature("Point", <<1, 0>>, TRUE, {}, TRUE, {<<"id", "p2">>}),
       Feature("Point", <<0, 0>>, FALSE, {}, TRUE, {<<"id", "p3">>}),
       Feature("Point", <<0, 0>>, FALSE, {}, FALSE, {}),
       EmptyFeature,
       [Feature("Point", <<>>, FALSE, {}, TRUE, {<<"id", "p6">>})
           EXCEPT !.hasGeometry = FALSE, !.hasCoordinates = FALSE,
                  !.hasGeomType = FALSE, !.geomType = ""],
       [Feature("Point", <<>>, FALSE, {}, TRUE, {<<"id", "p7">>})
           EXCEPT !.hasCoordinates = FALSE],
       [Feature("Point", <<1, 1>>, FALSE, {}, TRUE, {<<"id", "p8">>})
           EXCEPT !.hasType = FALSE],
       [Feature("", <<1, 1>>, FALSE, {}, TRUE, {<<"id", "p9">>})
           EXCEPT !.hasGeomType = FALSE] >>

\* The features of document B in SpecLoad: a Point and the feature whose
\* geometry has no "type".
LoadPoolB == {3, 9}

\* The feature array picked by index from a pool.
FeaturesFrom(pool, ixs) == [k \in 1..Len(ixs) |-> pool[ixs[k]]]

\* The shapes of a document: which of the keys "features" and "elements" it
\* has.  With both, "features" holds another array than "elements".
DocForms == {"features", "elements", "both", "neither"}

DocOfForm(form, feats) ==
    CASE form = "features" -> Doc(FALSE, <<>>, TRUE, feats)
      [] form = "elements" -> Doc(TRUE, feats, FALSE, <<>>)
      [] form = "both" -> Doc(TRUE, feats, TRUE, <<LoadPool[3]>> \o feats)
      [] form = "neither" -> Doc(FALSE, <<>>, FALSE, <<>>)

InitLoad ==
    /\ \E form \in DocForms : \E ixs \in SeqsUpTo(DOMAIN LoadPool, MaxA) :
          docA = DocOfForm(form, FeaturesFrom(LoadPool, ixs))
    /\ \E form \in DocForms : \E ixs \in SeqsUpTo(LoadPoolB, 1) :
          docB = DocOfForm(form, FeaturesFrom(LoadPool, ixs))
    /\ distance_okay \in Tolerances
    /\ a = <<>> /\ b = <<>> /\ matrix = <<>>
    /\ index_a = 0 /\ found = FALSE /\ candidates = <<>>
    /\ pc = "load_a"
    /\ diff = NotCalled /\ tabular = NotCalled
    /\ docA2 = FeaturesDoc(<<>>) /\ a2 = <<>> /\ matrix2 = <<>>
    /\ index_a2 = 0 /\ found2 = FALSE /\ candidates2 = <<>>
    /\ pc2 = "idle"
    /\ csv_rows = <<>> /\ csv_args = <<>> /\ contain_or = {} /\ csv_returns = <<>>
    /\ csv_pc = "idle"

SpecLoad == InitLoad /\ [][Next]_vars

\* ---------------------------------------------------------------- csv2geojson
\* Longest CSV file (rows) and longest list of --contain-or values.
MaxRows == 2
MaxClauses == 2

\* The rows the CSV input draws from: the columns lat, lon, t1 and t2.
CsvRows == [lat : {"", "1", "1,5"}, lon : {"2"}, t1 : {"a", "b"}, t2 : {"c", "d"}]

\* The --contain-or values: "t1=a", "t1=b", "t2=c", each as <<key, value>>
\* (every value has the form key=value, so no clause has the value True).
CsvClauses == {<<"t1", "a">>, <<"t1", "b">>, <<"t2", "c">>}

\* _contain_or[_key] = _val
DictSet(d, key, val) == {kv \in d : kv[1] # key} \cup {<<key, val>>}

\* execute_cli: the loop that fills _contain_or from pyargs.contain_or.
RECURSIVE ParseContain(_, _, _)
ParseContain(args, k, d) ==
    IF k > Len(args) THEN d
    ELSE ParseContain(args, k + 1, DictSet(d, args[k][1], args[k][2]))

\* geojson_item_contain: the loop over one dict of clauses.  "raised" is the
\* SyntaxError for a key the row lacks, "False" a clause the row differs from.
ClausesPass(item, clauses) ==
    IF \E kv \in clauses : kv[1] \notin DOMAIN item THEN "raised"
    ELSE IF \E kv \in clauses : kv[2] # item[kv[1]] THEN "False"
    ELSE "True"

\* geojson_item_contain(item, contain_or, contain_and)
geojson_item_contain(item, c_or, c_and) ==
    IF c_or = {} /\ c_and = {} THEN "True"
    ELSE IF c_and # {} /\ ClausesPass(item, c_and) # "True" THEN ClausesPass(item, c_and)
    ELSE ClausesPass(item, c_or)

\* `_lat.replace(",", ".")` and float(): the number in tenths.
DecimalPoint(str) == IF str = "1,5" THEN "1.5" ELSE str
Float(str) == CASE str = "1" -> 10 [] str = "1.5" -> 15 [] str = "2" -> 20

\* geojsom_item_properties(row, [lat, lon]): the columns that are not blank.
geojsom_item_properties(row) ==
    {<<key, row[key]>> : key \in {c \in DOMAIN row \ {"lat", "lon"} : row[c] # ""}}

NoItem == [kept |-> FALSE, coordinates |-> <<>>, properties |-> {}]

\* geojson_item(row, "lat", "lon", contain_or, contain_and): the feature, or
\* False (kept = FALSE), or "raised".
geojson_item(row, c_or, c_and) ==
    LET contain == geojson_item_contain(row, c_or, c_and)
    IN IF contain = "raised" THEN [raised |-> TRUE, item |-> NoItem]
       ELSE IF contain = "False" THEN [raised |-> FALSE, item |-> NoItem]
       ELSE IF row.lat = "" \/ row.lon = "" THEN [raised |-> FALSE, item |-> NoItem]
       ELSE [raised |-> FALSE,
             item |-> [kept |-> TRUE,
                       coordinates |-> <<Float(DecimalPoint(row.lon)),
                                         Float(DecimalPoint(row.lat))>>,
                       properties |-> geojsom_item_properties(row)]]

InitCsv ==
    /\ csv_rows \in SeqsUpTo(CsvRows, MaxRows)
    /\ csv_args \in SeqsUpTo(CsvClauses, MaxClauses)
    /\ contain_or = {} /\ csv_returns = <<>>
    /\ csv_pc = "args"
    /\ docA = FeaturesDoc(<<>>) /\ docB = FeaturesDoc(<<>>)
    /\ distance_okay = 100
    /\ a = <<>> /\ b = <<>> /\ matrix = <<>>
    /\ index_a = 0 /\ found = FALSE /\ candidates = <<>>
    /\ pc = "idle"
    /\ diff = NotCalled /\ tabular = NotCalled
    /\ docA2 = FeaturesDoc(<<>>) /\ a2 = <<>> /\ matrix2 = <<>>
    /\ index_a2 = 0 /\ found2 = FALSE /\ candidates2 = <<>>
    /\ pc2 = "idle"

geojsondiff == <<docA, docB, distance_okay, a, b, matrix, index_a, found, candidates,
                 pc, diff, tabular, docA2, a2, matrix2, index_a2, found2, candidates2, pc2>>

\* execute_cli: _contain_or is filled from the --contain-or values.
CsvParseArgs ==
    /\ csv_pc = "args"
    /\ contain_or' = ParseContain(csv_args, 1, {})
    /\ csv_pc' = "rows"
    /\ UNCHANGED <<csv_rows, csv_args, csv_returns>>
    /\ UNCHANGED geojsondiff

\* execute_cli: one iteration of `for row in reader`; the item is printed
\* unless it is False.
CsvRow ==
    /\ csv_pc = "rows"
    /\ Len(csv_returns) < Len(csv_rows)
    /\ LET r == geojson_item(csv_rows[Len(csv_returns) + 1], contain_or, {})
       IN /\ csv_returns' = IF r.raised THEN csv_returns ELSE Append(csv_returns, r.item)
          /\ csv_pc' = IF r.raised THEN "raised" ELSE "rows"
    /\ UNCHANGED <<csv_rows, csv_args, contain_or>>
    /\ UNCHANGED geojsondiff

\* execute_cli: the reader is exhausted.
CsvDone ==
    /\ csv_pc = "rows"
    /\ Len(csv_returns) = Len(csv_rows)
    /\ csv_pc' = "done"
    /\ UNCHANGED <<csv_rows, csv_args, contain_or, csv_returns>>
    /\ UNCHANGED geojsondiff

NextCsv == CsvParseArgs \/ CsvRow \/ CsvDone

SpecCsv == InitCsv /\ [][NextCsv]_vars

\* ==================================================================== claims
\* compute() has returned.
Computed == pc = "render"

\* The elements of a sequence.
Range(s) == {s[k] : k \in DOMAIN s}

\* The entries the iteration of compute() for A index k (1-based) appends.
ProducedFor(k) ==
    Range(ComputeIteration(a, b, distance_okay, k,
              [matrix |-> <<>>, found |-> FALSE, candidates |-> <<>>]).matrix)

\* The element is a 3-tuple (neither False nor None).
IsRecord(item) == item.tag = "tuple"

\* The distance of a[i] to b[j], and b[j] is a record within the tolerance of a[i].
DistAB(i, j) == haversine(a[i].coords, b[j].coords)
Within(i, j) == IsRecord(b[j]) /\ DistAB(i, j) <= distance_okay * 1000

\* The iteration of compute() for a[index_a] is the last one that ran.
AfterIteration == pc \in {"compute", "render"} /\ index_a >= 1

\* C1: after compute() the match table has exactly len(A) entries and entry
\* i is an entry produced for A[i].
C1_TableAlignedWithA ==
    Computed =>
        /\ Len(matrix) = Len(a)
        /\ \A i \in 1..Len(a) : matrix[i] \in ProducedFor(i)

\* C2: after compute(), if A[i] and a valid B[j] have the same coordinate then
\* entry i of the match table is EXACT with distance 0.
C2_EqualCoordinateIsExact ==
    Computed =>
        \A i \in 1..Len(a) : \A j \in 1..Len(b) :
            (IsRecord(a[i]) /\ IsRecord(b[j]) /\ a[i].coords = b[j].coords)
            => /\ ~matrix[i].isNone
               /\ matrix[i].kind = MATCH_EXACT
               /\ matrix[i].dist = 0

\* C3: for two comparisons with the same B and tolerance whose A collections
\* have the same length and agree at index i, entry i of the two match tables
\* is the same.
C3_EntryDependsOnOwnRecordOnly ==
    (pc = "render" /\ pc2 = "render" /\ Len(a) = Len(a2)) =>
        \A i \in 1..Len(a) : a[i] = a2[i] => matrix[i] = matrix2[i]

\* C4: the iteration of compute() for an A element that is False or None
\* appends exactly one entry, None, whatever the preceding iteration left in
\* `found` and `candidates`.
C4_InvalidAYieldsNone ==
    [][(pc = "compute" /\ index_a < Len(a) /\ index_a' = index_a + 1
        /\ ~IsRecord(a[index_a + 1]))
       => matrix' = Append(matrix, NoneEntry)]_vars

\* C4 witness: a False/None element was gone through right after a record
\* that left candidates behind, and the entry appended last is None.
C4_Witness ==
    /\ pc = "compute" /\ index_a >= 2
    /\ ~IsRecord(a[index_a]) /\ IsRecord(a[index_a - 1])
    /\ candidates # <<>>
    /\ matrix[Len(matrix)] = NoneEntry

\* The B index of a label f"B{j}" is the index of a record of B.
ValidB(j) == j \in 0..(Len(b) - 1) /\ IsRecord(b[j + 1])

\* C5: every entry of the match table that is not None references the index
\* of a valid B record, and so does every label of its alternates.
C5_EntriesReferenceValidB ==
    \A k \in 1..Len(matrix) :
        ~matrix[k].isNone =>
            /\ ValidB(matrix[k].index_b)
            /\ \A l \in 1..Len(matrix[k].skiped.list) :
                   /\ matrix[k].skiped.list[l][1] = "B"
                   /\ ValidB(matrix[k].skiped.list[l][2])

\* C5 witness: B holds a False/None element and the table has a match.
C5_Witness ==
    /\ Computed
    /\ \E j \in 1..Len(b) : ~IsRecord(b[j])
    /\ \E k \in 1..Len(matrix) : ~matrix[k].isNone

\* C6: after the iteration for a valid A[i] with no coordinate-equal B record
\* and some B record within tolerance, the entry appended last is NEAR, it
\* references a B record of minimum distance among those within tolerance,
\* the lowest such index, and carries that distance.
C6_NearIsNearestLowestIndex ==
    AfterIteration =>
        LET i == index_a
            e == matrix[Len(matrix)]
        IN (/\ IsRecord(a[i])
            /\ \A j \in 1..Len(b) : IsRecord(b[j]) => b[j].coords # a[i].coords
            /\ \E j \in 1..Len(b) : Within(i, j))
           => /\ ~e.isNone
              /\ e.kind = MATCH_NEAR
              /\ Within(i, e.index_b + 1)
              /\ e.dist = DistAB(i, e.index_b + 1)
              /\ \A j \in 1..Len(b) :
                    Within(i, j) =>
                        \/ e.dist < DistAB(i, j)
                        \/ (e.dist = DistAB(i, j) /\ e.index_b + 1 <= j)

\* C6 witness: two candidates, the second one nearer, and it is the match.
C6_Witness ==
    /\ AfterIteration /\ IsRecord(a[index_a])
    /\ Len(candidates) = 2
    /\ candidates[2][1] < candidates[1][1]
    /\ matrix[Len(matrix)] = Entry(candidates[2][2], MATCH_NEAR, candidates[2][1],
                                   SomeList(<<<<"B", candidates[1][2]>>,
                                              <<"B", candidates[2][2]>>>>))

\* C7: after the iteration for a valid A[i], a valid B[j] with another
\* coordinate at a distance equal to the tolerance is a candidate, a B[j]
\* farther than the tolerance is not, and if every valid B is farther than the
\* tolerance the entry appended is None.
C7_ToleranceInclusive ==
    (AfterIteration /\ IsRecord(a[index_a])) =>
        LET i == index_a
        IN /\ \A j \in 1..Len(b) :
                 (IsRecord(b[j]) /\ b[j].coords # a[i].coords
                  /\ DistAB(i, j) = distance_okay * 1000)
                 => <<DistAB(i, j), j - 1>> \in Range(candidates)
           /\ \A j \in 1..Len(b) :
                 (IsRecord(b[j]) /\ DistAB(i, j) > distance_okay * 1000)
                 => \A c \in Range(candidates) : c[2] # j - 1
           /\ (\A j \in 1..Len(b) :
                 IsRecord(b[j]) => DistAB(i, j) > distance_okay * 1000)
              => matrix[Len(matrix)] = NoneEntry

\* C7 witness: one B record exactly at the tolerance is a candidate while
\* another one, farther, is not.
C7_Witness ==
    /\ AfterIteration /\ IsRecord(a[index_a])
    /\ \E c \in Range(candidates) : c[1] = distance_okay * 1000
    /\ \E j \in 1..Len(b) :
          /\ IsRecord(b[j]) /\ DistAB(index_a, j) > distance_okay * 1000
          /\ \A c \in Range(candidates) : c[2] # j - 1

\* C8: diff_geojson_full() returns, with exactly len(A) features, for every
\* A, one with False/None elements included.
C8_DiffOneFeaturePerA ==
    diff.state # "none" =>
        /\ diff.state = "returned"
        /\ Len(diff.features) = Len(a)

\* The position of a column of the table.
Col(name) == CHOOSE k \in DOMAIN header : header[k] = name

\* C9: summary_tabular() returns the header and one row per A index, for every
\* A; a False/None element yields the row (A<index>, empty B columns, -1).
C9_TabularOneRowPerA ==
    tabular.state # "none" =>
        /\ tabular.state = "returned"
        /\ Len(tabular.data) = Len(a) + 1
        /\ tabular.data[1] = header
        /\ \A i \in 1..Len(a) :
              LET row == tabular.data[i + 1]
              IN /\ row[Col("uid_a")] = Cell(<<"A", i - 1>>)
                 /\ ~IsRecord(a[i]) =>
                       /\ row[Col("uid_b")] = EmptyCell
                       /\ row[Col("id_b")] = EmptyCell
                       /\ row[Col("latitude_b")] = EmptyCell
                       /\ row[Col("longitude_b")] = EmptyCell
                       /\ row[Col("distance_ab")] = Cell(-1)

\* C10: in the row of a Point feature with coordinates [lon, lat], latitude_a
\* is lat and longitude_a is lon; in a row matched to B[j], latitude_b and
\* longitude_b are the latitude and the longitude of B[j].
C10_LatitudeLongitudeColumns ==
    tabular.state = "returned" =>
        \A i \in 1..Len(a) :
            LET row == tabular.data[i + 1]
                feat == docA.features[i]
            IN (IsRecord(a[i]) /\ feat.geomType = "Point") =>
                  /\ row[Col("latitude_a")] = Cell(feat.coordinates[2])
                  /\ row[Col("longitude_a")] = Cell(feat.coordinates[1])
                  /\ \A j \in 0..(Len(b) - 1) :
                        row[Col("uid_b")] = Cell(<<"B", j>>) =>
                            /\ row[Col("latitude_b")] = Cell(b[j + 1].coords[1])
                            /\ row[Col("longitude_b")] = Cell(b[j + 1].coords[2])

\* The document has a feature container, and the array the loader is to read.
HasContainer(doc) == doc.hasElements \/ doc.hasFeatures
TheArray(doc) == IF doc.hasElements THEN doc.elements ELSE doc.features

\* _load_geojson(docA) has run and self.a holds one element per feature.
ALoaded == pc # "load_a" /\ HasContainer(docA) /\ Len(a) = Len(TheArray(docA))

\* The attributes claimed for a Point feature: `tags` if present and not
\* empty, else `properties` if present and not empty, else none.
ClaimedPointProps(f) ==
    IF f.hasTags /\ f.tags # {} THEN DictProps(f.tags)
    ELSE IF f.hasProperties /\ f.properties # {} THEN DictProps(f.properties)
    ELSE NoneProps

\* C11: the element loaded from a Point feature has the attributes of `tags`
\* if `tags` is present and not empty, else those of `properties` if present
\* and not empty, else none.
C11_TagsElseProperties ==
    ALoaded =>
        \A k \in 1..Len(a) :
            LET f == TheArray(docA)[k]
            IN (IsRecord(a[k]) /\ f.geomType = "Point")
               => a[k].props = ClaimedPointProps(f)

\* The feature is empty, lacks "geometry", its geometry lacks "coordinates",
\* or its geometry lacks "type".
Malformed(f) == f.isEmpty \/ ~f.hasGeometry \/ ~f.hasCoordinates \/ ~f.hasGeomType

\* C12: loading a document that has a container raises nothing in add_item:
\* self.a has one element per feature and the element of a malformed feature
\* is False.
C12_MalformedFeatureIsInvalidRecord ==
    (pc # "load_a" /\ HasContainer(docA)) =>
        /\ Len(a) = Len(TheArray(docA))
        /\ \A k \in 1..Len(a) : Malformed(TheArray(docA)[k]) => a[k] = PyFalse

\* The B positions (1-based) with the coordinate of a[i], and those with
\* another coordinate within the tolerance.
ExactHits(i) == {j \in 1..Len(b) : IsRecord(b[j]) /\ b[j].coords = a[i].coords}
NearHits(i) == {j \in 1..Len(b) : IsRecord(b[j]) /\ b[j].coords # a[i].coords
                                  /\ DistAB(i, j) <= distance_okay * 1000}

\* The nearest of the near hits, the lowest position on a tie.
Nearest(i) ==
    CHOOSE j \in NearHits(i) :
        \A n \in NearHits(i) :
            DistAB(i, j) < DistAB(i, n) \/ (DistAB(i, j) = DistAB(i, n) /\ j <= n)

\* The attributes of an element as a dict.
Attrs(item) == IF item.props.isNone THEN {} ELSE item.props.d

\* r is d rounded to 2 decimals of a metre (both in millimetres).
IsRounded2(r, d) == r % 10 = 0 /\ r - d \in -5..5

\* The labels "B<j>" of a set of B positions, in ascending order.
RECURSIVE LabelsOf(_)
LabelsOf(js) ==
    IF js = {} THEN <<>>
    ELSE LET m == CHOOSE j \in js : \A n \in js : j <= n
         IN <<<<"B", m - 1>>>> \o LabelsOf(js \ {m})

\* C13: the properties of output feature i of diff_geojson_full() are the
\* attributes of A[i] under a.<k>; if A[i] is matched, the attributes of the
\* B record it is matched to under b.<k>; a->b.distance, the matched distance
\* rounded to 2 decimals, or -1 if A[i] is unmatched; a->b.near iff the match
\* of A[i] has alternates.  No b.<k> when A[i] is unmatched.
C13_DiffProperties ==
    diff.state = "returned" =>
        \A i \in 1..Len(a) :
            LET p == diff.features[i].properties
            IN /\ p.a = Attrs(a[i])
               /\ (ExactHits(i) = {} /\ NearHits(i) = {}) =>
                     /\ p.b = {}
                     /\ p.distance = -1
                     /\ p.near = EmptyCell
               /\ ExactHits(i) # {} =>
                     /\ \E j \in ExactHits(i) : p.b = Attrs(b[j])
                     /\ p.distance = 0
                     /\ p.near = EmptyCell
               /\ (ExactHits(i) = {} /\ NearHits(i) # {}) =>
                     /\ p.b = Attrs(b[Nearest(i)])
                     /\ IsRounded2(p.distance, DistAB(i, Nearest(i)))
                     /\ p.near = IF Cardinality(NearHits(i)) > 1
                                 THEN Cell(LabelsOf(NearHits(i))) ELSE EmptyCell

\* C14: the geometry of the output feature of a Polygon feature of A is the
\* input geometry (type Polygon, the input coordinates); that of a Point
\* feature is a Point at the element's coordinate pair.
C14_DiffGeometry ==
    diff.state = "returned" =>
        \A i \in 1..Len(a) :
            LET f == docA.features[i]
                g == diff.features[i].geometry
            IN /\ f.geomType = "Polygon" =>
                     (g.type = "Polygon" /\ g.coordinates = f.coordinates)
               /\ f.geomType = "Point" =>
                     (g.type = "Point" /\ g.coordinates = a[i].coords
                      /\ a[i].coords = <<f.coordinates[2], f.coordinates[1]>>)

\* C14 witness: a document was returned in which a matched Polygon of A and
\* a Point of A both have their output feature.
C14_Witness ==
    /\ diff.state = "returned"
    /\ \E i \in 1..Len(a) :
          /\ docA.features[i].geomType = "Polygon"
          /\ diff.features[i].geometry.type = "Polygon"
          /\ ExactHits(i) # {}
    /\ \E i \in 1..Len(a) :
          /\ docA.features[i].geomType = "Point"
          /\ diff.features[i].geometry.type = "Point"

\* C15: the loader reads `elements` if the document has it, else `features`;
\* self.a has the length of that array and element k is what add_item makes
\* of feature k.  With neither key the load fails and nothing is compared.
C15_LoadContainerInOrder ==
    pc # "load_a" =>
        IF HasContainer(docA)
        THEN /\ Len(a) = Len(TheArray(docA))
             /\ \A k \in 1..Len(a) : a[k] = add_item(TheArray(docA)[k]).rec
        ELSE /\ pc = "aborted"
             /\ a = <<>> /\ matrix = <<>> /\ index_a = 0
             /\ diff = NotCalled /\ tabular = NotCalled

\* C17: after the iteration for a valid A[i] with a coordinate-equal B record,
\* the entry appended last is EXACT: no NEAR entry follows it, whatever the
\* candidates within tolerance.
C17_ExactOverNear ==
    (AfterIteration /\ IsRecord(a[index_a]) /\ ExactHits(index_a) # {})
    => matrix[Len(matrix)].kind = MATCH_EXACT

\* C18: with several coordinate-equal B records for A[i], entry i of the
\* table references the last of them in B's order.
C18_LastExactInSlot ==
    Computed =>
        \A i \in 1..Len(a) :
            (IsRecord(a[i]) /\ Cardinality(ExactHits(i)) > 1)
            => LET last == CHOOSE j \in ExactHits(i) : \A n \in ExactHits(i) : n <= j
               IN matrix[i] = Entry(last - 1, MATCH_EXACT, 0, NoneList)

\* C19: an EXACT entry has no alternates; the NEAR entry appended for A[i]
\* has none when one B record qualified, and with two or more it lists the
\* label of every qualifying B index once, in ascending B order.
C19_Alternates ==
    /\ \A k \in 1..Len(matrix) :
          (~matrix[k].isNone /\ matrix[k].kind = MATCH_EXACT) => matrix[k].skiped = NoneList
    /\ (AfterIteration /\ IsRecord(a[index_a])
        /\ ~matrix[Len(matrix)].isNone /\ matrix[Len(matrix)].kind = MATCH_NEAR)
       => LET e == matrix[Len(matrix)]
              q == NearHits(index_a)
          IN /\ q # {}
             /\ Cardinality(q) = 1 => e.skiped = NoneList
             /\ Cardinality(q) > 1 => e.skiped = SomeList(LabelsOf(q))

\* C19 witness: two B records at the same distance qualified; the entry
\* references the first and lists both.
C19_Witness ==
    /\ AfterIteration /\ IsRecord(a[index_a])
    /\ Len(candidates) = 2 /\ candidates[1][1] = candidates[2][1]
    /\ matrix[Len(matrix)].kind = MATCH_NEAR
    /\ matrix[Len(matrix)].index_b = candidates[1][2]
    /\ matrix[Len(matrix)].skiped.list = <<<<"B", candidates[1][2]>>, <<"B", candidates[2][2]>>>>

\* C16: with --contain-or values, a row with latitude and longitude is in the
\* output if and only if it matches at least one of the values.
C16_ContainOrIsAny ==
    (csv_pc = "done" /\ csv_args # <<>>) =>
        \A k \in 1..Len(csv_rows) :
            (csv_rows[k].lat # "" /\ csv_rows[k].lon # "")
            => (csv_returns[k].kept
                <=> \E c \in Range(csv_args) : csv_rows[k][c[1]] = c[2])

====
